---------------------------- MODULE Spec2Model ----------------------------
(***************************************************************************)
(* A model of the Codeforces battle bot (src/bot.py).                      *)
(*                                                                         *)
(* The bot is one asyncio process.  Code between two awaits runs           *)
(* atomically; every await is a point where another coroutine may run.     *)
(* Each action below is one such atomic segment of a handler or of a       *)
(* background task (battle_join_countdown, run_battle).  Handler           *)
(* coroutines are modelled as free to overlap at their awaits: nothing in  *)
(* the source serialises them.                                             *)
(*                                                                         *)
(* Battle state dicts are objects with identity: a task or a handler that  *)
(* has read `st = ACTIVE_BATTLES.get(chat_id)` keeps that object after the *)
(* registry entry is popped or replaced.  Battles are numbered 1..nb in    *)
(* order of creation and `st[b]` is the dict of battle b.                  *)
(***************************************************************************)
EXTENDS Integers, Sequences, FiniteSets, TLC

\* ------------------------------------------------------------------ bounds
\* Battles created in one run of the model.
MaxBattles == 2
\* Handler coroutines suspended at an await at the same time.
MaxInflight == 2
\* Handler invocations that pass their checks in one run of the model.
MaxCalls == 5
\* Calls of add_points in one run of the model.
MaxAwards == 2
\* Telegram users acting in the chat.
NumUsers == 2
\* Length of the catalog drawn for the selector's own specification.
MaxCatalog == 3
\* Largest num and longest rating list drawn for the selector's specification.
MaxNum == 3
\* Commands delivered in one run of a wider specification.
WideCalls == 4

\* ----------------------------------------------------------- program data
Chats == {"c1", "c2"}
Users == 1..NumUsers
Battles == 1..MaxBattles
NoBattle == 0

\* battle_join_countdown: ticks = 6
Ticks == 6

\* A catalog problem: contestId, index, rating.  A problem without an integer
\* rating (p.get("rating") is None) carries rating 0: 0 fails
\* isinstance-and-window exactly as None does, `rating or 0` maps None to 0,
\* and rating_to_points gives 0 for both.
Prob(c, i, r) == [contestId |-> c, index |-> i, rating |-> r]

\* key = f"{contestId}-{index}": the pair it is formatted from.
Key(p) == <<p.contestId, p.index>>

\* A submission as cf_user_status returns it: the problem and the verdict.
Sub(c, i, v) == [problem |-> [contestId |-> c, index |-> i], verdict |-> v]

\* ---------------------------------------------------------- Points mapping
POINT_MAP ==
    << <<800, 899, 1>>, <<900, 999, 1>>, <<1000, 1099, 2>>, <<1100, 1199, 2>>,
       <<1200, 1299, 3>>, <<1300, 1399, 3>>, <<1400, 1499, 4>>, <<1500, 1599, 5>>,
       <<1600, 1699, 6>>, <<1700, 1799, 7>>, <<1800, 1899, 8>>, <<1900, 1999, 10>>,
       <<2000, 2099, 12>>, <<2100, 2199, 15>>, <<2200, 2299, 18>>, <<2300, 2399, 22>>,
       <<2400, 2499, 27>>, <<2500, 2599, 33>>, <<2600, 2699, 40>>, <<2700, 2799, 48>>,
       <<2800, 2899, 58>>, <<2900, 2999, 70>>, <<3000, 3099, 85>> >>

RECURSIVE PointScan(_, _)
PointScan(rating, k) ==
    IF k > Len(POINT_MAP) THEN 0
    ELSE IF POINT_MAP[k][1] <= rating /\ rating <= POINT_MAP[k][2]
         THEN POINT_MAP[k][3]
         ELSE PointScan(rating, k + 1)

MutPointsExclusiveLow(rating) ==
    IF \E k \in 1..Len(POINT_MAP) : POINT_MAP[k][1] = rating THEN 0 ELSE PointScan(rating, 1)
rating_to_points(rating) == PointScan(rating, 1)

\* ------------------------------------------------------- problem selection
\* attempted: every key in the histories gathered for the participants.
AttemptedKeys(results) ==
    UNION { { Key(results[h][k].problem) : k \in 1..Len(results[h]) }
            : h \in DOMAIN results }

InWindow(p, lo, hi) == p.rating # 0 /\ lo <= p.rating /\ p.rating <= hi

Pool(problems, lo, hi) == SelectSeq(problems, LAMBDA p : InWindow(p, lo, hi))

\* random.shuffle(pool): any order of the pool.
Shuffles(pool) ==
    LET n == Len(pool)
        perms == { f \in [1..n -> 1..n] : \A i, j \in 1..n : f[i] = f[j] => i = j }
    IN  { [i \in 1..n |-> pool[f[i]]] : f \in perms }

\* The test each loop applies before it takes a problem of the pool.
MutKeepsAttempted(p, attempted) == TRUE
NotAttempted(p, attempted) == Key(p) \notin attempted

\* Range mode: walk the shuffled pool, take what passes, stop at num.
RECURSIVE RangeLoop(_, _, _, _, _)
RangeLoop(pool, i, selected, attempted, num) ==
    IF i > Len(pool) THEN selected
    ELSE IF NotAttempted(pool[i], attempted)
         THEN LET s2 == Append(selected, pool[i])
              IN  IF Len(s2) >= num THEN s2
                  ELSE RangeLoop(pool, i + 1, s2, attempted, num)
         ELSE RangeLoop(pool, i + 1, selected, attempted, num)

\* Specific mode, one target: the first problem of the shuffled pool that
\* passes, as a sequence of length 0 (found is None) or 1.
RECURSIVE FirstFound(_, _, _)
FirstFound(pool, i, attempted) ==
    IF i > Len(pool) THEN << >>
    ELSE IF NotAttempted(pool[i], attempted) THEN << pool[i] >>
         ELSE FirstFound(pool, i + 1, attempted)

\* Specific mode: the results the loop over ratings can produce from rating
\* i on, having selected `selected` so far.
RECURSIVE SpecificLoop(_, _, _, _, _, _)
SpecificLoop(problems, attempted, ratings, num, i, selected) ==
    IF i > Len(ratings) THEN { selected }
    ELSE LET pool   == Pool(problems, ratings[i] - 50, ratings[i] + 50)
             founds == { FirstFound(q, 1, attempted) : q \in Shuffles(pool) }
         IN  UNION { LET s2 == selected \o f
                     IN  IF Len(s2) >= num THEN { s2 }
                         ELSE SpecificLoop(problems, attempted, ratings, num, i + 1, s2)
                     : f \in founds }

MinOf(s) == CHOOSE x \in { s[k] : k \in 1..Len(s) } : \A k \in 1..Len(s) : x <= s[k]
MaxOf(s) == CHOOSE x \in { s[k] : k \in 1..Len(s) } : \A k \in 1..Len(s) : x >= s[k]

\* The results select_problems_for_battle can return, given the catalog
\* cf_problemset returned and the histories gathered.
select_problems_for_battle(problems, results, ratings, num) ==
    LET attempted == AttemptedKeys(results)
    IN  IF problems = << >> THEN { << >> }
        ELSE IF Len(ratings) = 2 /\ num > 2
             THEN { RangeLoop(q, 1, << >>, attempted, num)
                    : q \in Shuffles(Pool(problems, MinOf(ratings) - 50, MaxOf(ratings) + 50)) }
             ELSE SpecificLoop(problems, attempted, ratings, num, 1, << >>)

\* ------------------------------------------------------------ model inputs
\* The external catalog (problemset.problems) while the bot runs.
MainCatalog == << Prob(1, "A", 1200), Prob(1, "B", 1300) >>

\* Submissions a history returned by user.status may hold.
Submissions == { Sub(1, "A", "OK"), Sub(1, "A", "WRONG_ANSWER"), Sub(1, "B", "OK") }

\* Histories cf_user_status may return: empty (also on error), or one entry.
Histories == { << >> } \cup { << s >> : s \in Submissions }

\* Round indices of the battles these inputs create.
Rounds == 1..2

\* context.args of /createbattle, already split: num, then the ratings.
CreateInputs == { <<2, 1200, 1300>>, <<0, 1200>> }

\* ------------------------------------------------------------------- state
VARIABLES
    ACTIVE_BATTLES,    \* chat -> battle registered for it, NoBattle if none
    PENDING_CANCELS,   \* chat -> TRUE iff the dict holds a prompt for the chat
    PROBLEMSET_CACHE,  \* the cached catalog, << >> while empty
    nb,                \* battles created so far
    st,                \* battle -> its state dict
    cd,                \* battle k -> the battle_join_countdown task created with k
    rb,                \* battle k -> the run_battle task created by countdown k
    inflight,          \* handler coroutines suspended at an await
    calls,             \* handler invocations that passed their checks so far
    buttons,           \* chat -> the inline buttons posted in it so far
    points,            \* add_points calls, in order
    incr,              \* battle -> increment_battles calls made for it
    skipped,           \* <<battle, round>> pairs the creator skipped
    last,              \* chat of the step taken last, and the rejection it recorded
    confirms,          \* the confirm-cancel presses that cancelled a battle
    prompt_for,        \* chat -> battle the recorded prompt was sent for, else NoBattle
    out,               \* right after a decline: its chat and whether a prompt was pending
    sel_in,            \* selector specification: the inputs of one call
    sel_out,           \* selector specification: << >> or << result >>
    pt_in,             \* points specification: << >> or the two ratings of one run
    pt_out             \* points specification: << >> or the points of the two ratings

mainvars == << ACTIVE_BATTLES, PENDING_CANCELS, PROBLEMSET_CACHE, nb, st, cd, rb,
               inflight, calls, buttons, points, incr, skipped, confirms, prompt_for, out, last >>
selvars == << sel_in, sel_out, pt_in, pt_out >>
vars == << ACTIVE_BATTLES, PENDING_CANCELS, PROBLEMSET_CACHE, nb, st, cd, rb,
           inflight, calls, buttons, points, incr, skipped, confirms, prompt_for, out, last,
           sel_in, sel_out,
           pt_in, pt_out >>

\* parse_create_args: << >> when it raises, else << [num, ratings] >>.
parse_create_args(args) ==
    IF Len(args) < 2 THEN << >>
    ELSE IF args[1] < 1 \/ args[1] > 10 THEN << >>
    ELSE IF \E k \in 2..Len(args) : args[k] < 800 \/ args[k] > 3500 THEN << >>
    ELSE << [num |-> args[1], ratings |-> Tail(args)] >>

\* The dict of a battle not created yet.
NoState ==
    [chat |-> "c1", creator |-> 0, participants |-> {}, num_problems |-> 0,
     ratings |-> << >>, selected_problems |-> << >>, round |-> 0,
     status |-> "absent", round_winner |-> 0, round_finished |-> FALSE,
     current_problem |-> << >>]

\* state = {...} of cmd_createbattle; round_winner 0 is None, and
\* current_problem << >> is the key being absent.
NewState(c, u, parsed) ==
    [chat |-> c, creator |-> u, participants |-> {u}, num_problems |-> parsed.num,
     ratings |-> parsed.ratings, selected_problems |-> << >>, round |-> 0,
     status |-> "joining", round_winner |-> 0, round_finished |-> FALSE,
     current_problem |-> << >>]

NoTask == [pc |-> "none", i |-> 0]
NoOut == [chat |-> "-", had |-> FALSE]
NoStep == [chat |-> "-", rejected |-> "-"]
\* A step taken for chat c that is not a recorded rejection.
Served(c) == [chat |-> c, rejected |-> "-"]
\* A rejection by the handler named in kind, recorded when m says so.
Rejected(c, m, kind) == [chat |-> c, rejected |-> IF m THEN kind ELSE "-"]
NoRun == [pc |-> "none", b |-> 0, idx |-> 0, pst |-> 0, problems |-> << >>, parts |-> {},
          sel |-> << >>, failed |-> FALSE]

Req(o, c, u, bb, xx) == [op |-> o, chat |-> c, user |-> u, b |-> bb, x |-> xx]

IdleSel == [problems |-> << >>, results |-> << >>, ratings |-> << >>, num |-> 0]

\* The state after the module is loaded; n of the MaxCalls commands the
\* model delivers count as spent already.
InitWith(n) ==
    /\ ACTIVE_BATTLES = [c \in Chats |-> NoBattle]
    /\ PENDING_CANCELS = [c \in Chats |-> FALSE]
    /\ PROBLEMSET_CACHE = << >>
    /\ nb = 0
    /\ st = [b \in Battles |-> NoState]
    /\ cd = [b \in Battles |-> NoTask]
    /\ rb = [b \in Battles |-> NoRun]
    /\ inflight = {}
    /\ calls = n
    /\ buttons = [c \in Chats |-> {}]
    /\ points = << >>
    /\ incr = [b \in Battles |-> 0]
    /\ skipped = {}
    /\ confirms = {}
    /\ prompt_for = [c \in Chats |-> NoBattle]
    /\ out = NoOut
    /\ last = NoStep
    /\ sel_in = IdleSel
    /\ sel_out = << >>
    /\ pt_in = << >>
    /\ pt_out = << >>

Init == InitWith(0)

Creates == { h \in inflight : h.op = "create" }
CanSuspend == Cardinality(inflight) < MaxInflight

\* One more handler invocation gets past its checks.
Count == calls < MaxCalls /\ calls' = calls + 1

\* ------------------------------------------------------- cmd_createbattle
\* Line 363: a battle is registered for the chat.
CreateRejectActive(c, u, m) ==
    /\ ACTIVE_BATTLES[c] # NoBattle
    /\ out' = NoOut
    /\ last' = Rejected(c, m, "create")
    /\ UNCHANGED << ACTIVE_BATTLES, PENDING_CANCELS, PROBLEMSET_CACHE, nb, st, cd, rb,
                    inflight, points, incr, skipped, confirms, prompt_for, calls, buttons, selvars >>

\* Lines 363-366: the check passes and the handler awaits get_user.
CreateBegin(c, u, args) ==
    /\ ACTIVE_BATTLES[c] = NoBattle
    /\ CanSuspend
    /\ nb + Cardinality(Creates) < MaxBattles
    /\ inflight' = inflight \cup { Req("create", c, u, 0, args) }
    /\ out' = NoOut
    /\ Count
    /\ last' = Served(c)
    /\ UNCHANGED << ACTIVE_BATTLES, PENDING_CANCELS, PROBLEMSET_CACHE, nb, st, cd, rb,
                    points, incr, skipped, confirms, prompt_for, buttons, selvars >>

\* Lines 367-379: no handle set, or the arguments do not parse.
CreateRejectInput(h) ==
    /\ h \in inflight /\ h.op = "create"
    /\ inflight' = inflight \ {h}
    /\ \/ out' = NoOut
       \/ /\ parse_create_args(h.x) = << >>
          /\ out' = NoOut
    /\ last' = Served(h.chat)
    /\ UNCHANGED << ACTIVE_BATTLES, PENDING_CANCELS, PROBLEMSET_CACHE, nb, st, cd, rb,
                    points, incr, skipped, confirms, prompt_for, calls, buttons, selvars >>

\* What line 396 does with the registry.
Register(c, b) == [ACTIVE_BATTLES EXCEPT ![c] = b]

\* Lines 381-408: build the state dict, register it, await send_message.
CreateRegister(h) ==
    /\ h \in inflight /\ h.op = "create"
    /\ parse_create_args(h.x) # << >>
    /\ nb' = nb + 1
    /\ st' = [st EXCEPT ![nb + 1] = NewState(h.chat, h.user, parse_create_args(h.x)[1])]
    /\ ACTIVE_BATTLES' = Register(h.chat, nb + 1)
    /\ inflight' = (inflight \ {h}) \cup { Req("create_sent", h.chat, h.user, nb + 1, << >>) }
    /\ out' = NoOut
    /\ last' = Served(h.chat)
    /\ UNCHANGED << PENDING_CANCELS, PROBLEMSET_CACHE, cd, rb, points, incr, skipped, confirms, prompt_for, calls, buttons, selvars >>

\* Lines 409-412: the announcement was sent; start the countdown task.
CreateCountdown(h) ==
    /\ h \in inflight /\ h.op = "create_sent"
    /\ inflight' = inflight \ {h}
    /\ cd' = [cd EXCEPT ![h.b] = [pc |-> "sleep", i |-> 0]]
    /\ buttons' = [buttons EXCEPT ![h.chat] = @ \cup { << "ready", 0 >> }]
    /\ out' = NoOut
    /\ last' = Served(h.chat)
    /\ UNCHANGED << ACTIVE_BATTLES, PENDING_CANCELS, PROBLEMSET_CACHE, nb, st, rb,
                    points, incr, skipped, confirms, prompt_for, calls, selvars >>

\* Line 399 raises: the handler ends there, no countdown task is created.
CreateSendFails(h) ==
    /\ h \in inflight /\ h.op = "create_sent"
    /\ inflight' = inflight \ {h}
    /\ out' = NoOut
    /\ last' = Served(h.chat)
    /\ UNCHANGED << ACTIVE_BATTLES, PENDING_CANCELS, PROBLEMSET_CACHE, nb, st, cd, rb,
                    points, incr, skipped, confirms, prompt_for, calls, buttons, selvars >>

\* --------------------------------------------------- battle_join_countdown
\* The task created with battle k knows only the chat id; every step looks
\* the chat up again.
Registered(c) == ACTIVE_BATTLES[c]

\* ACTIVE_BATTLES.pop(chat_id, None): the entry of chat c is removed from reg.
MutPopClearsRegistry(reg, c) == [x \in Chats |-> NoBattle]
Pop(reg, c) == [reg EXCEPT ![c] = NoBattle]

\* Lines 420-423: the sleep ends, no battle or not joining: the task returns.
CountdownStop(k) ==
    /\ cd[k].pc = "sleep"
    /\ LET cur == Registered(st[k].chat)
       IN  IF cur = NoBattle THEN TRUE ELSE st[cur].status # "joining"
    /\ cd' = [cd EXCEPT ![k].pc = "done"]
    /\ out' = NoOut
    /\ last' = Served(st[k].chat)
    /\ UNCHANGED << ACTIVE_BATTLES, PENDING_CANCELS, PROBLEMSET_CACHE, nb, st, rb,
                    inflight, points, incr, skipped, confirms, prompt_for, calls, buttons, selvars >>

\* Lines 419-440: the sleep ends and the battle is joining: the message is
\* edited.  Before the last tick the edit's await and the next sleep are one
\* suspension (the code between them touches no shared state); after the
\* last tick the edit alone is awaited.
CountdownTick(k) ==
    /\ cd[k].pc = "sleep"
    /\ LET cur == Registered(st[k].chat)
       IN  cur # NoBattle /\ st[cur].status = "joining"
    /\ cd' = [cd EXCEPT ![k] = IF cd[k].i + 1 < Ticks
                                THEN [pc |-> "sleep", i |-> cd[k].i + 1]
                                ELSE [pc |-> "edit", i |-> cd[k].i + 1]]
    /\ out' = NoOut
    /\ last' = Served(st[k].chat)
    /\ UNCHANGED << ACTIVE_BATTLES, PENDING_CANCELS, PROBLEMSET_CACHE, nb, st, rb,
                    inflight, points, incr, skipped, confirms, prompt_for, calls, buttons, selvars >>

\* Lines 442-444: after the last tick nothing is registered.
CountdownGone(k) ==
    /\ cd[k].pc = "edit"
    /\ Registered(st[k].chat) = NoBattle
    /\ cd' = [cd EXCEPT ![k].pc = "done"]
    /\ out' = NoOut
    /\ last' = Served(st[k].chat)
    /\ UNCHANGED << ACTIVE_BATTLES, PENDING_CANCELS, PROBLEMSET_CACHE, nb, st, rb,
                    inflight, points, incr, skipped, confirms, prompt_for, calls, buttons, selvars >>

\* The gate of line 446.
MutTooFewNone(parts) == Cardinality(parts) < 1
TooFew(parts) == Cardinality(parts) < 2

\* Lines 446-448: too few participants; await the notice.
CountdownTooFew(k) ==
    /\ cd[k].pc = "edit"
    /\ Registered(st[k].chat) # NoBattle
    /\ TooFew(st[Registered(st[k].chat)].participants)
    /\ cd' = [cd EXCEPT ![k].pc = "notify"]
    /\ out' = NoOut
    /\ last' = Served(st[k].chat)
    /\ UNCHANGED << ACTIVE_BATTLES, PENDING_CANCELS, PROBLEMSET_CACHE, nb, st, rb,
                    inflight, points, incr, skipped, confirms, prompt_for, calls, buttons, selvars >>

\* Lines 449-453: the notice returned or raised; pop the chat's entry.
CountdownPop(k) ==
    /\ cd[k].pc = "notify"
    /\ cd' = [cd EXCEPT ![k].pc = "done"]
    /\ ACTIVE_BATTLES' = Pop(ACTIVE_BATTLES, st[k].chat)
    /\ out' = NoOut
    /\ last' = Served(st[k].chat)
    /\ UNCHANGED << PENDING_CANCELS, PROBLEMSET_CACHE, nb, st, rb,
                    inflight, points, incr, skipped, confirms, prompt_for, calls, buttons, selvars >>

\* Lines 455-457: promote the registered battle, create its run_battle task.
CountdownPromote(k) ==
    /\ cd[k].pc = "edit"
    /\ Registered(st[k].chat) # NoBattle
    /\ ~TooFew(st[Registered(st[k].chat)].participants)
    /\ cd' = [cd EXCEPT ![k].pc = "done"]
    /\ st' = [st EXCEPT ![Registered(st[k].chat)].status = "running"]
    /\ rb' = [rb EXCEPT ![k].pc = "start"]
    /\ out' = NoOut
    /\ last' = Served(st[k].chat)
    /\ UNCHANGED << ACTIVE_BATTLES, PENDING_CANCELS, PROBLEMSET_CACHE, nb,
                    inflight, points, incr, skipped, confirms, prompt_for, calls, buttons, selvars >>

\* -------------------------------------------------------------- run_battle
\* Lines 519-521: nothing registered when the task first runs.
RunNoBattle(k) ==
    /\ rb[k].pc = "start"
    /\ Registered(st[k].chat) = NoBattle
    /\ rb' = [rb EXCEPT ![k].pc = "done"]
    /\ out' = NoOut
    /\ last' = Served(st[k].chat)
    /\ UNCHANGED << ACTIVE_BATTLES, PENDING_CANCELS, PROBLEMSET_CACHE, nb, st, cd,
                    inflight, points, incr, skipped, confirms, prompt_for, calls, buttons, selvars >>

\* Lines 519-525, 461, 203-207: st is bound; cf_problemset finds the cache
\* empty or older than six hours and awaits the fetch.
RunFetch(k) ==
    /\ rb[k].pc = "start"
    /\ Registered(st[k].chat) # NoBattle
    /\ rb' = [rb EXCEPT ![k].pc = "fetch", ![k].b = Registered(st[k].chat)]
    /\ out' = NoOut
    /\ last' = Served(st[k].chat)
    /\ UNCHANGED << ACTIVE_BATTLES, PENDING_CANCELS, PROBLEMSET_CACHE, nb, st, cd,
                    inflight, points, incr, skipped, confirms, prompt_for, calls, buttons, selvars >>

\* Lines 519-525, 205, 215, 461-468: st is bound; the cache is fresh, the
\* histories of the participants are requested.
RunCached(k) ==
    /\ rb[k].pc = "start"
    /\ Registered(st[k].chat) # NoBattle
    /\ PROBLEMSET_CACHE # << >>
    /\ rb' = [rb EXCEPT ![k].pc = "gather", ![k].b = Registered(st[k].chat),
                        ![k].problems = PROBLEMSET_CACHE,
                        ![k].parts = st[Registered(st[k].chat)].participants]
    /\ out' = NoOut
    /\ last' = Served(st[k].chat)
    /\ UNCHANGED << ACTIVE_BATTLES, PENDING_CANCELS, PROBLEMSET_CACHE, nb, st, cd,
                    inflight, points, incr, skipped, confirms, prompt_for, calls, buttons, selvars >>

\* Lines 208-215: what cf_problemset returns after its fetch, ok or failed,
\* given the cache it found.
CatalogAfterFetch(ok, cache) == IF ok THEN MainCatalog ELSE cache

\* Lines 207-215, 461-468: the fetch succeeded (the cache is replaced) or
\* failed (the cache is kept); a non-empty list goes on to the histories.
\* `failed` tells, until the selection ends, that the fetch failed.
RunFetched(k, ok) ==
    /\ rb[k].pc = "fetch"
    /\ LET cache == CatalogAfterFetch(ok, PROBLEMSET_CACHE)
       IN  /\ cache # << >>
           /\ PROBLEMSET_CACHE' = IF ok THEN cache ELSE PROBLEMSET_CACHE
           /\ rb' = [rb EXCEPT ![k].pc = "gather", ![k].problems = cache,
                               ![k].parts = st[rb[k].b].participants,
                               ![k].failed = ~ok]
    /\ out' = NoOut
    /\ last' = Served(st[k].chat)
    /\ UNCHANGED << ACTIVE_BATTLES, PENDING_CANCELS, nb, st, cd,
                    inflight, points, incr, skipped, confirms, prompt_for, calls, buttons, selvars >>

\* Lines 212-215, 462-463, 524-535: the fetch failed with an empty cache;
\* the selector returns [], the abort notice is awaited.
RunFetchEmpty(k) ==
    /\ rb[k].pc = "fetch"
    /\ CatalogAfterFetch(FALSE, PROBLEMSET_CACHE) = << >>
    /\ st' = [st EXCEPT ![rb[k].b].selected_problems = << >>]
    /\ rb' = [rb EXCEPT ![k].pc = "abort", ![k].failed = TRUE]
    /\ out' = NoOut
    /\ last' = Served(st[k].chat)
    /\ UNCHANGED << ACTIVE_BATTLES, PENDING_CANCELS, PROBLEMSET_CACHE, nb, cd,
                    inflight, points, incr, skipped, confirms, prompt_for, calls, buttons, selvars >>

\* Line 528.
MutShortOnlyEmpty(selected, num) == selected = << >>
Short(selected, num) == selected = << >> \/ Len(selected) < num

\* Lines 468-515, 524-535: the histories arrive, the selection is short.
RunSelectShort(k) ==
    /\ rb[k].pc = "gather"
    /\ \E results \in [rb[k].parts -> Histories] :
         \E sel \in select_problems_for_battle(rb[k].problems, results,
                                               st[rb[k].b].ratings, st[rb[k].b].num_problems) :
            /\ Short(sel, st[rb[k].b].num_problems)
            /\ st' = [st EXCEPT ![rb[k].b].selected_problems = sel]
    /\ rb' = [rb EXCEPT ![k].pc = "abort", ![k].problems = << >>, ![k].parts = {},
                        ![k].failed = FALSE]
    /\ out' = NoOut
    /\ last' = Served(st[k].chat)
    /\ UNCHANGED << ACTIVE_BATTLES, PENDING_CANCELS, PROBLEMSET_CACHE, nb, cd,
                    inflight, points, incr, skipped, confirms, prompt_for, calls, buttons, selvars >>

\* Lines 536-538: the notice returned or raised; pop the chat's entry.
RunAbort(k) ==
    /\ rb[k].pc = "abort"
    /\ rb' = [rb EXCEPT ![k].pc = "done", ![k].failed = FALSE]
    /\ ACTIVE_BATTLES' = Pop(ACTIVE_BATTLES, st[k].chat)
    /\ out' = NoOut
    /\ last' = Served(st[k].chat)
    /\ UNCHANGED << PENDING_CANCELS, PROBLEMSET_CACHE, nb, st, cd,
                    inflight, points, incr, skipped, confirms, prompt_for, calls, buttons, selvars >>

\* Lines 468-515, 524-541: the selection is complete; increment_battles is
\* called for the participants and awaited.
RunSelected(k) ==
    /\ rb[k].pc = "gather"
    /\ \E results \in [rb[k].parts -> Histories] :
         \E sel \in select_problems_for_battle(rb[k].problems, results,
                                               st[rb[k].b].ratings, st[rb[k].b].num_problems) :
            /\ ~Short(sel, st[rb[k].b].num_problems)
            /\ st' = [st EXCEPT ![rb[k].b].selected_problems = sel]
            /\ rb' = [rb EXCEPT ![k].pc = "incr", ![k].problems = << >>, ![k].parts = {},
                                ![k].sel = sel, ![k].failed = FALSE]
    /\ incr' = [incr EXCEPT ![rb[k].b] = @ + 1]
    /\ out' = NoOut
    /\ last' = Served(st[k].chat)
    /\ UNCHANGED << ACTIVE_BATTLES, PENDING_CANCELS, PROBLEMSET_CACHE, nb, cd,
                    inflight, points, skipped, confirms, prompt_for, calls, buttons, selvars >>

\* Lines 544-549, 577-600: round idx of the list the loop enumerates begins.
\* The fields are reset; post_round looks the chat up again and, when a
\* battle is registered, awaits send_message for it.
RoundBegins(k, idx) ==
    LET b   == rb[k].b
        cur == Registered(st[k].chat)
    IN  /\ st' = [st EXCEPT ![b].round = idx, ![b].round_winner = 0,
                            ![b].round_finished = FALSE]
        /\ IF cur = NoBattle
           THEN /\ rb' = [rb EXCEPT ![k].pc = "poll", ![k].idx = idx]
                /\ out' = NoOut
           ELSE /\ rb' = [rb EXCEPT ![k].pc = "post", ![k].idx = idx, ![k].pst = cur]
                /\ out' = NoOut

\* Lines 573, 642-652: finalize_battle looks the chat up again and, when a
\* battle is registered, awaits the 'Battle Finished' notice.  s1 is the
\* dicts as the caller leaves them.
Finalize(k, s1) ==
    LET cur == Registered(st[k].chat)
    IN  /\ st' = s1
        /\ IF cur = NoBattle
           THEN /\ rb' = [rb EXCEPT ![k].pc = "done"]
                /\ out' = NoOut
           ELSE /\ rb' = [rb EXCEPT ![k].pc = "finmsg"]
                /\ out' = NoOut

\* The for statement of line 544 after round idx.
LoopNext(k, idx, s1) ==
    IF idx < Len(rb[k].sel) THEN RoundBegins(k, idx + 1) ELSE Finalize(k, s1)

\* Lines 541-549: increment_battles returned; the first round begins.
RunFirstRound(k) ==
    /\ rb[k].pc = "incr"
    /\ LoopNext(k, 0, st)
    /\ last' = Served(st[k].chat)
    /\ UNCHANGED << ACTIVE_BATTLES, PENDING_CANCELS, PROBLEMSET_CACHE, nb, cd,
                    inflight, points, incr, skipped, confirms, prompt_for, calls, buttons, selvars >>

\* Lines 591-603: the announcement was sent; post_round records the problem
\* in the dict it looked up.
RunPosted(k) ==
    /\ rb[k].pc = "post"
    /\ st' = [st EXCEPT ![rb[k].pst].current_problem = << rb[k].sel[rb[k].idx] >>]
    /\ rb' = [rb EXCEPT ![k].pc = "poll", ![k].pst = 0]
    /\ buttons' = [buttons EXCEPT ![st[k].chat] = @ \cup { << "finished", rb[k].idx >> }]
    /\ out' = NoOut
    /\ last' = Served(st[k].chat)
    /\ UNCHANGED << ACTIVE_BATTLES, PENDING_CANCELS, PROBLEMSET_CACHE, nb, cd,
                    inflight, points, incr, skipped, confirms, prompt_for, calls, selvars >>

\* Lines 604-605: send_message raised; nothing is recorded.
RunPostFails(k) ==
    /\ rb[k].pc = "post"
    /\ rb' = [rb EXCEPT ![k].pc = "poll", ![k].pst = 0]
    /\ out' = NoOut
    /\ last' = Served(st[k].chat)
    /\ UNCHANGED << ACTIVE_BATTLES, PENDING_CANCELS, PROBLEMSET_CACHE, nb, st, cd,
                    inflight, points, incr, skipped, confirms, prompt_for, calls, buttons, selvars >>

\* Lines 552-560: a poll finds the battle cancelled; the task returns.
RunCancelled(k) ==
    /\ rb[k].pc = "poll"
    /\ st[rb[k].b].status = "cancelled"
    /\ st' = [st EXCEPT ![rb[k].b].round_finished = FALSE]
    /\ rb' = [rb EXCEPT ![k].pc = "done"]
    /\ out' = NoOut
    /\ last' = Served(st[k].chat)
    /\ UNCHANGED << ACTIVE_BATTLES, PENDING_CANCELS, PROBLEMSET_CACHE, nb, cd,
                    inflight, points, incr, skipped, confirms, prompt_for, calls, buttons, selvars >>

\* Lines 552-564: a poll finds the round finished, more rounds remain: sleep.
RunPause(k) ==
    /\ rb[k].pc = "poll"
    /\ st[rb[k].b].status # "cancelled"
    /\ st[rb[k].b].round_finished
    /\ rb[k].idx < Len(st[rb[k].b].selected_problems)
    /\ st' = [st EXCEPT ![rb[k].b].round_finished = FALSE]
    /\ rb' = [rb EXCEPT ![k].pc = "pause"]
    /\ out' = NoOut
    /\ last' = Served(st[k].chat)
    /\ UNCHANGED << ACTIVE_BATTLES, PENDING_CANCELS, PROBLEMSET_CACHE, nb, cd,
                    inflight, points, incr, skipped, confirms, prompt_for, calls, buttons, selvars >>

\* Lines 552-563, 544, 573: a poll finds the round finished and no pause
\* is due; the loop goes on at once.
RunLastRoundOver(k) ==
    /\ rb[k].pc = "poll"
    /\ st[rb[k].b].status # "cancelled"
    /\ st[rb[k].b].round_finished
    /\ ~(rb[k].idx < Len(st[rb[k].b].selected_problems))
    /\ LoopNext(k, rb[k].idx, [st EXCEPT ![rb[k].b].round_finished = FALSE])
    /\ last' = Served(st[k].chat)
    /\ UNCHANGED << ACTIVE_BATTLES, PENDING_CANCELS, PROBLEMSET_CACHE, nb, cd,
                    inflight, points, incr, skipped, confirms, prompt_for, calls, buttons, selvars >>

\* Lines 564-569: the pause ends; the 'Next round starting' notice is sent.
RunTag(k) ==
    /\ rb[k].pc = "pause"
    /\ rb' = [rb EXCEPT ![k].pc = "tag"]
    /\ out' = NoOut
    /\ last' = Served(st[k].chat)
    /\ UNCHANGED << ACTIVE_BATTLES, PENDING_CANCELS, PROBLEMSET_CACHE, nb, st, cd,
                    inflight, points, incr, skipped, confirms, prompt_for, calls, buttons, selvars >>

\* Lines 569-571, 544-549: the notice returned or raised; the loop goes on.
RunNextRound(k) ==
    /\ rb[k].pc = "tag"
    /\ LoopNext(k, rb[k].idx, st)
    /\ last' = Served(st[k].chat)
    /\ UNCHANGED << ACTIVE_BATTLES, PENDING_CANCELS, PROBLEMSET_CACHE, nb, cd,
                    inflight, points, incr, skipped, confirms, prompt_for, calls, buttons, selvars >>

\* Lines 653-657: the notice returned or raised; pop the chat's entry.
RunFinalized(k) ==
    /\ rb[k].pc = "finmsg"
    /\ rb' = [rb EXCEPT ![k].pc = "done"]
    /\ ACTIVE_BATTLES' = Pop(ACTIVE_BATTLES, st[k].chat)
    /\ out' = NoOut
    /\ last' = Served(st[k].chat)
    /\ UNCHANGED << PENDING_CANCELS, PROBLEMSET_CACHE, nb, st, cd,
                    inflight, points, incr, skipped, confirms, prompt_for, calls, buttons, selvars >>

\* -------------------------------------------------- handle_ready_callback
\* Lines 741-745: no battle, or the battle is not joining.
ReadyReject(c, u, m) ==
    /\ << "ready", 0 >> \in buttons[c]
    /\ \/ /\ Registered(c) = NoBattle
          /\ out' = NoOut
       \/ /\ Registered(c) # NoBattle
          /\ st[Registered(c)].status # "joining"
          /\ out' = NoOut
    /\ last' = Rejected(c, m, "ready")
    /\ UNCHANGED << ACTIVE_BATTLES, PENDING_CANCELS, PROBLEMSET_CACHE, nb, st, cd, rb,
                    inflight, points, incr, skipped, confirms, prompt_for, calls, buttons, selvars >>

\* Lines 739-748: the battle is joining; await get_user.
ReadyBegin(c, u) ==
    /\ << "ready", 0 >> \in buttons[c]
    /\ Registered(c) # NoBattle
    /\ st[Registered(c)].status = "joining"
    /\ CanSuspend
    /\ inflight' = inflight \cup { Req("ready", c, u, Registered(c), << >>) }
    /\ out' = NoOut
    /\ Count
    /\ last' = Served(c)
    /\ UNCHANGED << ACTIVE_BATTLES, PENDING_CANCELS, PROBLEMSET_CACHE, nb, st, cd, rb,
                    points, incr, skipped, confirms, prompt_for, buttons, selvars >>

\* Lines 750-754: no handle set, or the user is a participant already.
ReadyNoJoin(h, m) ==
    /\ h \in inflight /\ h.op = "ready"
    /\ inflight' = inflight \ {h}
    /\ \/ out' = NoOut
       \/ /\ h.user \in st[h.b].participants
          /\ out' = NoOut
    /\ last' = Rejected(h.chat, m, "join")
    /\ UNCHANGED << ACTIVE_BATTLES, PENDING_CANCELS, PROBLEMSET_CACHE, nb, st, cd, rb,
                    points, incr, skipped, confirms, prompt_for, calls, buttons, selvars >>

\* Lines 756-768: the user is added to the dict read before the await.
ReadyJoin(h) ==
    /\ h \in inflight /\ h.op = "ready"
    /\ h.user \notin st[h.b].participants
    /\ inflight' = inflight \ {h}
    /\ st' = [st EXCEPT ![h.b].participants = @ \cup {h.user}]
    /\ out' = NoOut
    /\ last' = Served(h.chat)
    /\ UNCHANGED << ACTIVE_BATTLES, PENDING_CANCELS, PROBLEMSET_CACHE, nb, cd, rb,
                    points, incr, skipped, confirms, prompt_for, calls, buttons, selvars >>

\* ----------------------------------------------- handle_finished_callback
\* Line 616.
HasWinner(s) == s.round_winner # 0

\* Lines 609-617: no battle, not a participant, or the round has a winner.
FinishedReject(c, u, m) ==
    /\ \E ridx \in Rounds : << "finished", ridx >> \in buttons[c]
    /\ \/ /\ Registered(c) = NoBattle
          /\ out' = NoOut
       \/ /\ Registered(c) # NoBattle
          /\ u \notin st[Registered(c)].participants
          /\ out' = NoOut
       \/ /\ Registered(c) # NoBattle
          /\ u \in st[Registered(c)].participants
          /\ HasWinner(st[Registered(c)])
          /\ out' = NoOut
    /\ last' = Rejected(c, m, "finished")
    /\ UNCHANGED << ACTIVE_BATTLES, PENDING_CANCELS, PROBLEMSET_CACHE, nb, st, cd, rb,
                    inflight, points, incr, skipped, confirms, prompt_for, calls, buttons, selvars >>

\* Lines 609-622: the checks pass; await the user's submissions.
FinishedBegin(c, u, ridx) ==
    /\ << "finished", ridx >> \in buttons[c]
    /\ Registered(c) # NoBattle
    /\ u \in st[Registered(c)].participants
    /\ ~HasWinner(st[Registered(c)])
    /\ CanSuspend
    /\ inflight' = inflight \cup { Req("finished", c, u, Registered(c), << ridx >>) }
    /\ out' = NoOut
    /\ Count
    /\ last' = Served(c)
    /\ UNCHANGED << ACTIVE_BATTLES, PENDING_CANCELS, PROBLEMSET_CACHE, nb, st, cd, rb,
                    points, incr, skipped, confirms, prompt_for, buttons, selvars >>

\* Lines 626-630: the test of one submission against st["current_problem"].
Accepted(s, cur) ==
    /\ s.problem.contestId = cur.contestId
    /\ s.problem.index = cur.index
    /\ s.verdict = "OK"

\* Lines 624-630, 638: no submission is an accepted one of the current problem.
MutNoACEndsRound(h, subs, m) ==
    /\ h \in inflight /\ h.op = "finished"
    /\ subs = << >> \/ st[h.b].current_problem # << >>
    /\ \A k \in 1..Len(subs) : ~Accepted(subs[k], st[h.b].current_problem[1])
    /\ inflight' = inflight \ {h}
    /\ st' = [st EXCEPT ![h.b].round_finished = TRUE]
    /\ out' = NoOut
    /\ last' = Rejected(h.chat, m, "no AC")
    /\ UNCHANGED << ACTIVE_BATTLES, PENDING_CANCELS, PROBLEMSET_CACHE, nb, cd, rb,
                    points, incr, skipped, confirms, prompt_for, calls, buttons, selvars >>
FinishedNoAC(h, subs, m) ==
    /\ h \in inflight /\ h.op = "finished"
    /\ subs = << >> \/ st[h.b].current_problem # << >>
    /\ \A k \in 1..Len(subs) : ~Accepted(subs[k], st[h.b].current_problem[1])
    /\ inflight' = inflight \ {h}
    /\ out' = NoOut
    /\ last' = Rejected(h.chat, m, "no AC")
    /\ UNCHANGED << ACTIVE_BATTLES, PENDING_CANCELS, PROBLEMSET_CACHE, nb, st, cd, rb,
                    points, incr, skipped, confirms, prompt_for, calls, buttons, selvars >>

\* Line 627 with no "current_problem" key in the dict: KeyError, caught by
\* cb_query.
FinishedKeyError(h, subs) ==
    /\ h \in inflight /\ h.op = "finished"
    /\ subs # << >> /\ st[h.b].current_problem = << >>
    /\ inflight' = inflight \ {h}
    /\ out' = NoOut
    /\ last' = Served(h.chat)
    /\ UNCHANGED << ACTIVE_BATTLES, PENDING_CANCELS, PROBLEMSET_CACHE, nb, st, cd, rb,
                    points, incr, skipped, confirms, prompt_for, calls, buttons, selvars >>

\* Lines 624-633: an accepted submission of the current problem; the winner
\* is recorded and add_points is called and awaited.
FinishedWin(h, subs) ==
    /\ h \in inflight /\ h.op = "finished"
    /\ st[h.b].current_problem # << >>
    /\ \E k \in 1..Len(subs) : Accepted(subs[k], st[h.b].current_problem[1])
    /\ Len(points) < MaxAwards
    /\ st' = [st EXCEPT ![h.b].round_winner = h.user]
    /\ points' = Append(points,
                        [b |-> h.b, round |-> st[h.b].round,
                         problem |-> Key(st[h.b].current_problem[1]),
                         pts |-> rating_to_points(st[h.b].current_problem[1].rating)])
    /\ inflight' = (inflight \ {h}) \cup { Req("add_points", h.chat, h.user, h.b, h.x) }
    /\ out' = NoOut
    /\ last' = Served(h.chat)
    /\ UNCHANGED << ACTIVE_BATTLES, PENDING_CANCELS, PROBLEMSET_CACHE, nb, cd, rb,
                    incr, skipped, confirms, prompt_for, calls, buttons, selvars >>

\* Lines 634-636: add_points returned; the round is marked finished.
FinishedDone(h) ==
    /\ h \in inflight /\ h.op = "add_points"
    /\ st' = [st EXCEPT ![h.b].round_finished = TRUE]
    /\ inflight' = inflight \ {h}
    /\ out' = NoOut
    /\ last' = Served(h.chat)
    /\ UNCHANGED << ACTIVE_BATTLES, PENDING_CANCELS, PROBLEMSET_CACHE, nb, cd, rb,
                    points, incr, skipped, confirms, prompt_for, calls, buttons, selvars >>

\* ------------------------------------------------------- cmd_cancelbattle
\* Lines 664-669: no battle, or the sender is not its creator.
CancelBattleReject(c, u, m) ==
    /\ \/ /\ Registered(c) = NoBattle
          /\ out' = NoOut
       \/ /\ Registered(c) # NoBattle
          /\ st[Registered(c)].creator # u
          /\ out' = NoOut
    /\ last' = Rejected(c, m, "cancelbattle")
    /\ UNCHANGED << ACTIVE_BATTLES, PENDING_CANCELS, PROBLEMSET_CACHE, nb, st, cd, rb,
                    inflight, points, incr, skipped, confirms, prompt_for, calls, buttons, selvars >>

\* Lines 664-683: the creator asks; await the prompt's reply_text.
CancelBattleBegin(c, u) ==
    /\ Registered(c) # NoBattle
    /\ st[Registered(c)].creator = u
    /\ CanSuspend
    /\ inflight' = inflight \cup { Req("cancelbattle", c, u, Registered(c), << >>) }
    /\ out' = NoOut
    /\ Count
    /\ last' = Served(c)
    /\ UNCHANGED << ACTIVE_BATTLES, PENDING_CANCELS, PROBLEMSET_CACHE, nb, st, cd, rb,
                    points, incr, skipped, confirms, prompt_for, buttons, selvars >>

\* Line 684: the prompt was sent; record it for the chat.
CancelBattlePending(h) ==
    /\ h \in inflight /\ h.op = "cancelbattle"
    /\ inflight' = inflight \ {h}
    /\ PENDING_CANCELS' = [PENDING_CANCELS EXCEPT ![h.chat] = TRUE]
    /\ prompt_for' = [prompt_for EXCEPT ![h.chat] = h.b]
    /\ buttons' = [buttons EXCEPT ![h.chat] = @ \cup { << "cancel", 0 >> }]
    /\ out' = NoOut
    /\ last' = Served(h.chat)
    /\ UNCHANGED << ACTIVE_BATTLES, PROBLEMSET_CACHE, nb, st, cd, rb,
                    points, incr, skipped, confirms, calls, selvars >>

\* -------------------------------------------------------- cmd_cancelround
\* Lines 691-703: no battle, not the creator, not running, or no round yet.
CancelRoundReject(c, u, m) ==
    /\ \/ /\ Registered(c) = NoBattle
          /\ out' = NoOut
       \/ /\ Registered(c) # NoBattle
          /\ st[Registered(c)].creator # u
          /\ out' = NoOut
       \/ /\ Registered(c) # NoBattle
          /\ st[Registered(c)].creator = u
          /\ st[Registered(c)].status # "running"
          /\ out' = NoOut
       \/ /\ Registered(c) # NoBattle
          /\ st[Registered(c)].creator = u
          /\ st[Registered(c)].status = "running"
          /\ st[Registered(c)].round = 0
          /\ out' = NoOut
    /\ last' = Rejected(c, m, "cancelround")
    /\ UNCHANGED << ACTIVE_BATTLES, PENDING_CANCELS, PROBLEMSET_CACHE, nb, st, cd, rb,
                    inflight, points, incr, skipped, confirms, prompt_for, calls, buttons, selvars >>

\* Lines 706-707: what the skip writes into the dict.
SkipRound(s) == [s EXCEPT !.round_finished = TRUE, !.round_winner = 0]

\* Lines 691-713: the creator skips the current round.
cmd_cancelround(c, u) ==
    /\ Registered(c) # NoBattle
    /\ st[Registered(c)].creator = u
    /\ st[Registered(c)].status = "running"
    /\ st[Registered(c)].round # 0
    /\ st' = [st EXCEPT ![Registered(c)] = SkipRound(@)]
    /\ skipped' = skipped \cup { << Registered(c), st[Registered(c)].round >> }
    /\ out' = NoOut
    /\ Count
    /\ last' = Served(c)
    /\ UNCHANGED << ACTIVE_BATTLES, PENDING_CANCELS, PROBLEMSET_CACHE, nb, cd, rb,
                    inflight, points, incr, confirms, prompt_for, buttons, selvars >>

\* --------------------------------------------------- handle_confirm_cancel
\* Lines 812-814: nothing is registered for the chat.
ConfirmCancelReject(c) ==
    /\ << "cancel", 0 >> \in buttons[c]
    /\ Registered(c) = NoBattle
    /\ out' = NoOut
    /\ last' = Served(c)
    /\ UNCHANGED << ACTIVE_BATTLES, PENDING_CANCELS, PROBLEMSET_CACHE, nb, st, cd, rb,
                    inflight, points, incr, skipped, confirms, prompt_for, calls, buttons, selvars >>

\* Lines 812-822: user u presses 'Yes, Cancel'; mark the registered battle
\* cancelled, pop both entries.  `confirms` keeps who pressed and what
\* PENDING_CANCELS held for the chat at that moment.
handle_confirm_cancel(c, u) ==
    /\ << "cancel", 0 >> \in buttons[c]
    /\ Registered(c) # NoBattle
    /\ st' = [st EXCEPT ![Registered(c)].status = "cancelled",
                        ![Registered(c)].round_finished = TRUE]
    /\ ACTIVE_BATTLES' = Pop(ACTIVE_BATTLES, c)
    /\ PENDING_CANCELS' = [PENDING_CANCELS EXCEPT ![c] = FALSE]
    /\ prompt_for' = [prompt_for EXCEPT ![c] = NoBattle]
    /\ confirms' = confirms \cup { [battle |-> Registered(c), by |-> u,
                                     pending |-> PENDING_CANCELS[c],
                                     prompt |-> prompt_for[c]] }
    /\ out' = NoOut
    /\ Count
    /\ last' = Served(c)
    /\ UNCHANGED << PROBLEMSET_CACHE, nb, cd, rb, inflight, points, incr, skipped, buttons, selvars >>

\* -------------------------------------------------------- handle_no_cancel
\* Line 830: what the decline does to the two registries.
MutDeclinePopsBattle(c) ==
    << [ACTIVE_BATTLES EXCEPT ![c] = NoBattle], [PENDING_CANCELS EXCEPT ![c] = FALSE] >>
Decline(c) == << ACTIVE_BATTLES, [PENDING_CANCELS EXCEPT ![c] = FALSE] >>

\* Lines 827-831.
handle_no_cancel(c) ==
    /\ << "cancel", 0 >> \in buttons[c]
    /\ ACTIVE_BATTLES' = Decline(c)[1]
    /\ PENDING_CANCELS' = Decline(c)[2]
    /\ prompt_for' = [prompt_for EXCEPT ![c] = NoBattle]
    /\ out' = [chat |-> c, had |-> PENDING_CANCELS[c]]
    /\ Count
    /\ last' = Served(c)
    /\ UNCHANGED << PROBLEMSET_CACHE, nb, st, cd, rb, inflight, points, incr, skipped, confirms, buttons, selvars >>

\* ----------------------------------------------------------- specification
\* The handlers, for updates that come from the chats of C with the create
\* arguments of I; m tells whether rejections are recorded in `last`.
HandlersIn(C, I, m) ==
    \/ \E c \in C, u \in Users :
         \/ CreateRejectActive(c, u, m)
         \/ \E args \in I : CreateBegin(c, u, args)
         \/ ReadyReject(c, u, m)
         \/ ReadyBegin(c, u)
         \/ FinishedReject(c, u, m)
         \/ \E ridx \in Rounds : FinishedBegin(c, u, ridx)
         \/ CancelBattleReject(c, u, m)
         \/ CancelBattleBegin(c, u)
         \/ CancelRoundReject(c, u, m)
         \/ cmd_cancelround(c, u)
         \/ handle_confirm_cancel(c, u)
    \/ \E c \in C :
         \/ ConfirmCancelReject(c)
         \/ handle_no_cancel(c)
    \/ \E h \in inflight :
         \/ CreateRejectInput(h)
         \/ CreateRegister(h)
         \/ CreateCountdown(h)
         \/ CreateSendFails(h)
         \/ ReadyNoJoin(h, m)
         \/ ReadyJoin(h)
         \/ CancelBattlePending(h)
         \/ FinishedDone(h)
         \/ \E subs \in Histories :
              \/ FinishedNoAC(h, subs, m)
              \/ FinishedKeyError(h, subs)
              \/ FinishedWin(h, subs)

\* The chat whose updates Spec delivers.
OneChat == {"c1"}

Handlers == HandlersIn(OneChat, CreateInputs, FALSE)

Countdown(k) ==
    \/ CountdownStop(k)
    \/ CountdownTick(k)
    \/ CountdownGone(k)
    \/ CountdownTooFew(k)
    \/ CountdownPop(k)
    \/ CountdownPromote(k)

RunBattle(k) ==
    \/ RunNoBattle(k)
    \/ RunFetch(k)
    \/ RunCached(k)
    \/ \E ok \in BOOLEAN : RunFetched(k, ok)
    \/ RunFetchEmpty(k)
    \/ RunSelectShort(k)
    \/ RunAbort(k)
    \/ RunSelected(k)
    \/ RunFirstRound(k)
    \/ RunPosted(k)
    \/ RunPostFails(k)
    \/ RunCancelled(k)
    \/ RunPause(k)
    \/ RunLastRoundOver(k)
    \/ RunTag(k)
    \/ RunNextRound(k)
    \/ RunFinalized(k)

Tasks == \E k \in Battles : Countdown(k) \/ RunBattle(k)

Next == Handlers \/ Tasks

Spec == Init /\ [][Next]_vars

\* The event loop resumes every countdown task whose sleep or transport call
\* has ended, and every supervisor likewise.
FairSpec == Spec /\ \A k \in Battles : WF_vars(Countdown(k)) /\ WF_vars(RunBattle(k))

\* ------------------------------------------------ wider specifications
\* Each delivers WideCalls commands and widens one thing Spec keeps narrow.
\* Updates come from both chats.
ChatsNext == HandlersIn(Chats, CreateInputs, FALSE) \/ Tasks

ChatsSpec == InitWith(MaxCalls - WideCalls) /\ [][ChatsNext]_vars

\* Rejections are recorded in `last`.
RejectNext == HandlersIn(OneChat, CreateInputs, TRUE) \/ Tasks

RejectSpec == InitWith(MaxCalls - WideCalls) /\ [][RejectNext]_vars

\* /createbattle also comes with fewer ratings than problems.
WideInputs == CreateInputs \cup { << 2, 1200 >> }

FewRatingsNext == HandlersIn(OneChat, WideInputs, FALSE) \/ Tasks

FewRatingsSpec == InitWith(MaxCalls - WideCalls) /\ [][FewRatingsNext]_vars

\* ------------------------------------------- the selector's specification
\* One call of select_problems_for_battle on inputs drawn at the start: the
\* catalog cf_problemset returned, the histories gathered for two handles,
\* the rating list and num.
SelProblems == { Prob(1, "A", 1200), Prob(1, "B", 1250), Prob(2, "A", 1300), Prob(2, "B", 0) }
SelRatings == { 1200, 1300 }
SelHandles == { "h1", "h2" }
SelHistories == { << >>, << Sub(1, "A", "OK") >>, << Sub(1, "B", "WRONG_ANSWER") >> }

SeqsUpTo(S, n) == UNION { [1..m -> S] : m \in 0..n }

SelInit ==
    /\ ACTIVE_BATTLES = [c \in Chats |-> NoBattle]
    /\ PENDING_CANCELS = [c \in Chats |-> FALSE]
    /\ PROBLEMSET_CACHE = << >>
    /\ nb = 0
    /\ st = [b \in Battles |-> NoState]
    /\ cd = [b \in Battles |-> NoTask]
    /\ rb = [b \in Battles |-> NoRun]
    /\ inflight = {}
    /\ calls = 0
    /\ buttons = [c \in Chats |-> {}]
    /\ points = << >>
    /\ incr = [b \in Battles |-> 0]
    /\ skipped = {}
    /\ confirms = {}
    /\ prompt_for = [c \in Chats |-> NoBattle]
    /\ out = NoOut
    /\ last = NoStep
    /\ sel_in \in [problems : SeqsUpTo(SelProblems, MaxCatalog),
                   results  : [SelHandles -> SelHistories],
                   ratings  : SeqsUpTo(SelRatings, MaxNum) \ { << >> },
                   num      : 1..MaxNum]
    /\ sel_out = << >>
    /\ pt_in = << >>
    /\ pt_out = << >>

SelectCall ==
    /\ sel_in.num > 0
    /\ sel_out = << >>
    /\ \E r \in select_problems_for_battle(sel_in.problems, sel_in.results,
                                           sel_in.ratings, sel_in.num) :
         sel_out' = << r >>
    /\ UNCHANGED << mainvars, sel_in, pt_in, pt_out >>

SelNext == SelectCall

SelSpec == SelInit /\ [][SelNext]_vars

\* ------------------------------------------ rating_to_points' specification
\* One run calls rating_to_points on two ratings drawn at the start: the
\* edges of every band, the value below and above each, a value inside each,
\* and values far outside the table.
PtRatings ==
    UNION { { POINT_MAP[k][1] - 1, POINT_MAP[k][1], POINT_MAP[k][1] + 50,
              POINT_MAP[k][2], POINT_MAP[k][2] + 1 } : k \in 1..Len(POINT_MAP) }
       \cup { -1200, -1, 0, 3500, 100000 }

PtsInit ==
    /\ ACTIVE_BATTLES = [c \in Chats |-> NoBattle]
    /\ PENDING_CANCELS = [c \in Chats |-> FALSE]
    /\ PROBLEMSET_CACHE = << >>
    /\ nb = 0
    /\ st = [b \in Battles |-> NoState]
    /\ cd = [b \in Battles |-> NoTask]
    /\ rb = [b \in Battles |-> NoRun]
    /\ inflight = {}
    /\ calls = 0
    /\ buttons = [c \in Chats |-> {}]
    /\ points = << >>
    /\ incr = [b \in Battles |-> 0]
    /\ skipped = {}
    /\ confirms = {}
    /\ prompt_for = [c \in Chats |-> NoBattle]
    /\ out = NoOut
    /\ last = NoStep
    /\ sel_in = IdleSel
    /\ sel_out = << >>
    /\ pt_in \in PtRatings \X PtRatings
    /\ pt_out = << >>

PointsCall ==
    /\ pt_in # << >>
    /\ pt_out = << >>
    /\ pt_out' = << rating_to_points(pt_in[1]), rating_to_points(pt_in[2]) >>
    /\ UNCHANGED << mainvars, sel_in, sel_out, pt_in >>

PtsNext == PointsCall

PtsSpec == PtsInit /\ [][PtsNext]_vars

\* ----------------------------------------------------------------- claims
\* add_points calls recorded in pts for battle b while its round was r.
AwardsIn(pts, b, r) == { i \in 1..Len(pts) : pts[i].b = b /\ pts[i].round = r }
\* add_points calls recorded in pts for battle b.
AwardsOf(pts, b) == { i \in 1..Len(pts) : pts[i].b = b }

\* C1: in every battle and every round add_points is called at most once,
\* also when two claims are in flight for the round at the same time.
C1_OneAwardPerRound ==
    \A b \in Battles : \A r \in Rounds : Cardinality(AwardsIn(points, b, r)) <= 1

\* C2: once a round has a recorded winner, nothing clears or overwrites it
\* while that round is the current one.
C2_OutcomeSetOnce ==
    [][ \A b \in Battles :
          (st[b].round_winner # 0 /\ st'[b].round = st[b].round)
             => st'[b].round_winner = st[b].round_winner ]_vars

\* C3: after the creator skipped a round, no add_points call is made while
\* that round is still the battle's current round.
C3_NoAwardAfterSkip ==
    [][ \A b \in Battles : \A r \in Rounds :
          << b, r >> \in skipped => AwardsIn(points', b, r) = AwardsIn(points, b, r) ]_vars

\* C4: once a battle is marked cancelled, add_points is never called for it
\* again, not even by a claim that was awaiting its lookup.
C4_NoAwardAfterCancel ==
    [][ \A b \in Battles :
          st[b].status = "cancelled" => AwardsOf(points', b) = AwardsOf(points, b) ]_vars

\* C5: once a battle is marked cancelled, the supervisor bound to it posts no
\* round, sends no 'Next round starting', writes no battle count and sends no
\* 'Battle Finished' notice.
C5_SupervisorStopsOnCancel ==
    [][ \A k \in Battles :
          (rb[k].b # 0 /\ st[rb[k].b].status = "cancelled")
             => /\ incr'[rb[k].b] = incr[rb[k].b]
                /\ rb'[k].pc \in { "post", "tag", "incr", "finmsg" } => rb'[k].pc = rb[k].pc ]_vars

\* C6: a battle that is running has at least two participants, and the step
\* from joining to running is taken only with at least two.
C6_RunningHasTwo ==
    /\ [](\A b \in Battles :
             st[b].status = "running" => Cardinality(st[b].participants) >= 2)
    /\ [][ \A b \in Battles :
             (st[b].status = "joining" /\ st'[b].status = "running")
                => Cardinality(st[b].participants) >= 2 ]_vars

\* Two participants, promoted, and the first round is running.
C6_Witness ==
    \E b \in Battles :
       /\ st[b].status = "running"
       /\ Cardinality(st[b].participants) = 2
       /\ st[b].round = 1

\* C7: a battle with only its creator never runs, gets no supervisor, no
\* selection and no storage write; and once its join timer has started, it
\* is eventually joined by a second user or deregistered.
C7_SoloNeverRuns ==
    /\ [](\A b \in Battles :
             Cardinality(st[b].participants) < 2
                => /\ st[b].status # "running"
                   /\ \A k \in Battles : rb[k].b # b
                   /\ st[b].selected_problems = << >>
                   /\ incr[b] = 0
                   /\ AwardsOf(points, b) = {})
    /\ \A b \in Battles :
          (cd[b].pc # "none")
             ~> (Cardinality(st[b].participants) >= 2 \/ Registered(st[b].chat) # b)

\* C8: a registered battle is never replaced in the registry by another one.
C8_NeverReplaced ==
    [][ \A c \in Chats :
          ACTIVE_BATTLES[c] # NoBattle
             => ACTIVE_BATTLES'[c] \in { ACTIVE_BATTLES[c], NoBattle } ]_vars

\* C9: a decline removes the chat's pending-cancel entry and changes neither
\* the registry nor any field of any battle.
C9_DeclineFrame ==
    [][ \A c \in Chats :
          out'.chat = c
             => /\ PENDING_CANCELS'[c] = FALSE
                /\ ACTIVE_BATTLES' = ACTIVE_BATTLES
                /\ st' = st ]_vars

\* A prompt was pending for a running battle in its first round and has just
\* been declined.
C9_Witness ==
    \E c \in Chats :
       /\ out = [chat |-> c, had |-> TRUE]
       /\ Registered(c) # NoBattle
       /\ st[Registered(c)].status = "running"
       /\ st[Registered(c)].round = 1


\* C10: no problem the selector returns has an identifier (contestId, index)
\* that occurs in a history fetched for a participant, whatever the verdict,
\* in range mode and in per-target mode.
C10_NoAttemptedSelected ==
    sel_out # << >> =>
        \A k \in 1..Len(sel_out[1]) :
           \A h \in DOMAIN sel_in.results :
              \A j \in 1..Len(sel_in.results[h]) :
                 \/ sel_in.results[h][j].problem.contestId # sel_out[1][k].contestId
                 \/ sel_in.results[h][j].problem.index # sel_out[1][k].index

\* A range-mode call that returned two problems although a third catalog
\* problem inside the rating range had been attempted (with a non-OK verdict).
C10_Witness ==
    /\ sel_out # << >>
    /\ Len(sel_in.ratings) = 2 /\ sel_in.num > 2
    /\ Len(sel_out[1]) = 2
    /\ sel_in.results["h1"] = << Sub(1, "B", "WRONG_ANSWER") >>
    /\ \E k \in 1..Len(sel_in.problems) :
          /\ Key(sel_in.problems[k]) = << 1, "B" >>
          /\ InWindow(sel_in.problems[k], MinOf(sel_in.ratings) - 50, MaxOf(sel_in.ratings) + 50)

\* C11: when the catalog holds no identifier twice, no identifier occurs
\* twice in one result of the selector, also when the rating list repeats a
\* rating or two of its windows overlap.
C11_NoDuplicateSelected ==
    (sel_out # << >> /\ \A i, j \in 1..Len(sel_in.problems) :
                           Key(sel_in.problems[i]) = Key(sel_in.problems[j]) => i = j)
       => \A i, j \in 1..Len(sel_out[1]) :
             Key(sel_out[1][i]) = Key(sel_out[1][j]) => i = j

C13_BattleCountOnce ==
    \A b \in Battles :
       /\ incr[b] <= 1
       /\ st[b].round >= 1 => incr[b] = 1
       /\ incr[b] >= 1 => /\ st[b].status # "joining"
                          /\ Len(st[b].selected_problems) = st[b].num_problems

\* C14: every add_points call made while round i of a battle was current is
\* for the i-th selected problem and carries the points of that problem's
\* rating, also when the announcement of round i could not be posted.
C14_AwardIsForRoundProblem ==
    \A i \in 1..Len(points) :
       LET sel == st[points[i].b].selected_problems
           r   == points[i].round
       IN  (r >= 1 /\ r <= Len(sel))
              => /\ points[i].problem = Key(sel[r])
                 /\ points[i].pts = rating_to_points(sel[r].rating)

\* C15: a battle is cancelled by a confirm-cancel press only when the user
\* who pressed is the battle's creator.
C15_OnlyCreatorCancels ==
    \A f \in confirms : f.by = st[f.battle].creator

\* C16: a confirm-cancel press cancels a battle only while PENDING_CANCELS
\* holds a prompt for the chat and that prompt was sent for this battle.
C16_ConfirmNeedsPrompt ==
    \A f \in confirms : f.pending /\ f.prompt = f.battle

\* C17: the countdown task created with battle k promotes no battle but k
\* and deregisters no battle but k: whatever it finds registered for the chat
\* after its last tick, it changes nothing of a later battle.
C17_CountdownOwnBattleOnly ==
    [][ \A k \in Battles :
          /\ (cd[k].pc = "edit" /\ cd'[k].pc = "done")
                => \A b \in Battles \ {k} : st'[b] = st[b]
          /\ (cd[k].pc = "notify" /\ cd'[k].pc = "done")
                => Registered(st[k].chat) \in { k, NoBattle } ]_vars

\* C18: the supervisor that holds the dict of one battle posts no round under
\* another battle, sets no other battle's current problem, and pops no other
\* battle from the registry when it aborts or finalizes.
C18_SupervisorOwnBattleOnly ==
    [][ \A k \in Battles :
          rb[k].b # 0 =>
             /\ (rb[k].pc # "post" /\ rb'[k].pc = "post") => rb'[k].pst = rb[k].b
             /\ (rb[k].pc = "post" /\ rb'[k].pc = "poll")
                   => \A b \in Battles \ { rb[k].b } : st'[b] = st[b]
             /\ (rb[k].pc \in { "abort", "finmsg" } /\ rb'[k].pc = "done")
                   => Registered(st[k].chat) \in { rb[k].b, NoBattle } ]_vars

\* C19: the participants of a battle change only while it is joining and
\* registered, and the participants whose histories the selection used are
\* the participants whose battle counts are incremented.
C19_ParticipantsFrozen ==
    [][ /\ \A b \in Battles :
             (\/ st[b].status \in { "running", "cancelled" }
              \/ (st[b].status = "joining" /\ Registered(st[b].chat) # b))
                => st'[b].participants = st[b].participants
        /\ \A k \in Battles :
             (rb[k].pc = "gather" /\ rb'[k].pc = "incr")
                => rb[k].parts = st[rb[k].b].participants ]_vars

\* The supervisor created by countdown k got a short selection for the
\* battle it holds and took the abort path.
C20_Aborted(k) ==
    rb[k].b # 0 /\ rb[k].sel = << >> /\ rb[k].pc \in { "abort", "done" }

\* C20: a battle for which the selector returned fewer than num_problems
\* problems has no round, no battle-count increment and no award, and the
\* supervisor that aborts leaves it deregistered; a battle with a current
\* round has exactly num_problems selected problems.
C20_ShortSelectionAborts ==
    /\ [](/\ \A k \in Battles :
               C20_Aborted(k)
                  => /\ st[rb[k].b].round = 0
                     /\ incr[rb[k].b] = 0
                     /\ AwardsOf(points, rb[k].b) = {}
           /\ \A b \in Battles :
               st[b].round >= 1 => Len(st[b].selected_problems) = st[b].num_problems)
    /\ [][ \A k \in Battles :
             (rb[k].pc = "abort" /\ rb'[k].pc = "done")
                => ACTIVE_BATTLES'[st[k].chat] # rb[k].b ]_vars

\* C21: when the catalog fetch of a selection fails, the selector returns an
\* empty result and the battle takes the abort path, whether the cache was
\* empty or populated by an earlier fetch.
C21_FailedFetchAborts ==
    [][ \A k \in Battles :
          (rb[k].pc = "fetch" /\ rb'[k].pc # "fetch" /\ rb'[k].failed)
             => /\ rb'[k].pc = "abort"
                /\ st'[rb[k].b].selected_problems = << >> ]_vars

\* C22: within one battle the round index starts at 0 and only ever steps
\* from i to i + 1, up to the problem count; it leaves a round i >= 1 only
\* after an accepted claim or a creator skip resolved round i.
C22_RoundsInOrder ==
    [][ \A b \in Battles :
          st'[b].round # st[b].round
             => /\ st'[b].round = st[b].round + 1
                /\ st'[b].round <= st[b].num_problems
                /\ st[b].round >= 1
                      => \/ AwardsIn(points, b, st[b].round) # {}
                         \/ << b, st[b].round >> \in skipped ]_vars

\* C23: a resolution signal set for the current round is never lost: once
\* round_finished is set while a supervisor of the battle waits for the
\* current round, it stays set until a supervisor's wait ends.
C23_SignalNeverLost ==
    [][ \A b \in Battles :
          ( /\ st[b].round_finished
            /\ \E k \in Battles : /\ rb[k].b = b
                                   /\ rb[k].pc \in {"post", "poll"}
                                   /\ rb[k].idx = st[b].round )
             => \/ st'[b].round_finished
                \/ \E k \in Battles : /\ rb[k].b = b
                                       /\ rb[k].pc = "poll"
                                       /\ rb'[k].pc # "poll" ]_vars

\* C24: a step taken for chat c, by a handler, a countdown or a supervisor,
\* leaves the registry entry, the pending-cancel entry and every field of the
\* registered battle of every other chat unchanged.
C24_ChatsIndependent ==
    [][ \A c \in Chats :
          last'.chat = c
             => \A c2 \in Chats \ {c} :
                   /\ ACTIVE_BATTLES'[c2] = ACTIVE_BATTLES[c2]
                   /\ PENDING_CANCELS'[c2] = PENDING_CANCELS[c2]
                   /\ ACTIVE_BATTLES[c2] # NoBattle
                         => st'[ACTIVE_BATTLES[c2]] = st[ACTIVE_BATTLES[c2]] ]_vars

\* The battle of chat c1 was aborted on a short selection and deregistered
\* by its supervisor while a running battle is registered for chat c2.
C24_Witness ==
    \E k \in Battles :
       /\ C20_Aborted(k)
       /\ rb[k].pc = "done"
       /\ st[k].chat = "c1"
       /\ last.chat = "c1"
       /\ ACTIVE_BATTLES["c1"] = NoBattle
       /\ ACTIVE_BATTLES["c2"] # NoBattle
       /\ st[ACTIVE_BATTLES["c2"]].chat = "c2"
       /\ st[ACTIVE_BATTLES["c2"]].status = "running"

\* C25: a rejected operation (a create while a battle is registered, a cancel
\* request or skip by a non-creator, a skip while the battle is not running
\* or before round 1, a duplicate or late join, a claim by a non-participant,
\* on a round that has a winner or without an accepted submission) leaves
\* the registry, every field of every battle, the pending-cancel map, the
\* awarded points and the battle counts unchanged.
C25_RejectionsChangeNothing ==
    [][ last'.rejected # "-"
           => /\ ACTIVE_BATTLES' = ACTIVE_BATTLES
              /\ st' = st
              /\ PENDING_CANCELS' = PENDING_CANCELS
              /\ points' = points
              /\ incr' = incr ]_vars

\* A claim without an accepted submission was rejected and round 1 of the
\* running battle is still open.
C25_Witness ==
    /\ last = [chat |-> "c1", rejected |-> "no AC"]
    /\ Registered("c1") # NoBattle
    /\ LET s == st[Registered("c1")]
       IN  /\ s.status = "running"
           /\ s.round = 1
           /\ s.current_problem # << >>
           /\ s.round_winner = 0
           /\ ~s.round_finished

\* C26: a claim is accepted (winner recorded, points awarded, the round of
\* its button reported as won) only if the round index its button carries
\* is the battle's current round when the claim is resolved.
C26_ClaimIsForCurrentRound ==
    [][ \A h \in inflight' \ inflight :
          h.op = "add_points" => h.x[1] = st[h.b].round ]_vars

\* C27, the selector alone (checked under SelSpec, whose calls draw catalogs,
\* histories, rating lists and num): in per-target mode the result is no
\* longer than the rating list and no longer than num.
C27_SelectorBound ==
    (sel_out # << >> /\ ~(Len(sel_in.ratings) = 2 /\ sel_in.num > 2))
       => /\ Len(sel_out[1]) <= Len(sel_in.ratings)
          /\ Len(sel_out[1]) <= sel_in.num

\* C27: in per-target mode the stored selection is no longer than the rating
\* list and no longer than num_problems; a battle created in that mode with
\* fewer ratings than problems never has a round: its round index stays 0,
\* no battle count is incremented for it, and every supervisor that holds it
\* stops at the selection with the abort path.
C27_FewRatingsNeverRun ==
    \A b \in Battles :
       ~(Len(st[b].ratings) = 2 /\ st[b].num_problems > 2)
          => /\ Len(st[b].selected_problems) <= Len(st[b].ratings)
             /\ Len(st[b].selected_problems) <= st[b].num_problems
             /\ Len(st[b].ratings) < st[b].num_problems
                   => /\ st[b].round = 0
                      /\ incr[b] = 0
                      /\ \A k \in Battles :
                            rb[k].b = b
                               => /\ rb[k].sel = << >>
                                  /\ rb[k].pc \in { "fetch", "gather", "abort", "done" }

\* A battle created with one rating for two problems got a selection of one
\* problem and its supervisor has taken the abort path and deregistered it.
C27_Witness ==
    \E k \in Battles :
       /\ C20_Aborted(k)
       /\ rb[k].pc = "done"
       /\ st[rb[k].b].ratings = << 1200 >>
       /\ st[rb[k].b].num_problems = 2
       /\ Len(st[rb[k].b].selected_problems) = 1
       /\ st[rb[k].b].status = "running"
       /\ Registered(st[rb[k].b].chat) = NoBattle

=============================================================================
